---- MODULE Spec2Model ----
(***************************************************************************)
(* Model of auvura-core: the composite scanner's overlap resolution        *)
(* (detector.rs), the redaction policy and its builder (policy.rs) and the *)
(* redaction engine (redactor.rs).                                         *)
(*                                                                         *)
(* A Rust string is modelled as the sequence of its UTF-8 bytes.  ASCII    *)
(* bytes are one-character strings; the block character U+2588 is the      *)
(* three bytes "E2" "96" "88".  Offsets and lengths are byte counts, as    *)
(* str::len, str::find and Detection.start/end are.                        *)
(***************************************************************************)
EXTENDS Integers, Sequences, FiniteSets, TLC

(* ---------------------------------------------------------------------- *)
(* Bounds of the model                                                     *)
(* ---------------------------------------------------------------------- *)
MaxDetections == 3
MaxOffset == 5
MaxTextLen == 3
MaxTerms == 1
MaxDetectors == 2
MaxPerDetector == 1
MaxSubLen == 6
MaxDetectOffset == 4
MaxThreads == 2

(* ---------------------------------------------------------------------- *)
(* Rust strings (std): the str operations the engine calls                 *)
(* ---------------------------------------------------------------------- *)
\* "\u{2588}" as UTF-8.
Block == <<"E2", "96", "88">>

Digits == {"0", "1", "2", "3", "4", "5", "6", "7", "8", "9"}

\* char::is_ascii_digit on a decoded character (a sequence of bytes).
is_ascii_digit(c) == Len(c) = 1 /\ c[1] \in Digits

\* str::repeat
RECURSIVE repeat(_, _)
repeat(s, n) == IF n <= 0 THEN <<>> ELSE s \o repeat(s, n - 1)

\* The slice text[from..to] with 0-based byte offsets.
Slice(text, from, to) == SubSeq(text, from + 1, to)

\* TRUE when pat occurs in text at 0-based byte offset i.
MatchAt(text, pat, i) ==
    /\ i + Len(pat) <= Len(text)
    /\ \A k \in 1..Len(pat) : text[i + k] = pat[k]

\* str::contains
contains(text, pat) == \E i \in 0..Len(text) : MatchAt(text, pat, i)

\* str::match_indices for a non-empty pattern: the start offsets of the
\* matches found scanning left to right, the scan resuming after each match.
RECURSIVE MatchFrom(_, _, _)
MatchFrom(text, pat, i) ==
    IF i + Len(pat) > Len(text) THEN <<>>
    ELSE IF MatchAt(text, pat, i)
         THEN <<i>> \o MatchFrom(text, pat, i + Len(pat))
         ELSE MatchFrom(text, pat, i + 1)

match_indices(text, pat) == MatchFrom(text, pat, 0)

\* str::replace: every match reported by match_indices is replaced by to.
RECURSIVE ReplaceFrom(_, _, _, _)
ReplaceFrom(text, pat, to, i) ==
    IF i >= Len(text) THEN <<>>
    ELSE IF MatchAt(text, pat, i)
         THEN to \o ReplaceFrom(text, pat, to, i + Len(pat))
         ELSE <<text[i + 1]>> \o ReplaceFrom(text, pat, to, i + 1)

replace(text, pat, to) == ReplaceFrom(text, pat, to, 0)

\* str::chars: the characters of text, each as the sequence of its bytes.
RECURSIVE CharsFrom(_, _)
CharsFrom(text, i) ==
    IF i > Len(text) THEN <<>>
    ELSE IF text[i] = "E2"
         THEN <<SubSeq(text, i, i + 2)>> \o CharsFrom(text, i + 3)
         ELSE <<SubSeq(text, i, i)>> \o CharsFrom(text, i + 1)

chars(text) == CharsFrom(text, 1)

\* The concatenation of a sequence of sequences.
RECURSIVE Concat(_)
Concat(ss) == IF ss = <<>> THEN <<>> ELSE Head(ss) \o Concat(Tail(ss))

\* TRUE when the 0-based byte offset i is a character boundary of text.
is_char_boundary(text, i) ==
    /\ i \in 0..Len(text)
    /\ (i < Len(text) => text[i + 1] \notin {"96", "88"})

(* ---------------------------------------------------------------------- *)
(* types.rs                                                                *)
(* ---------------------------------------------------------------------- *)
PiiType == {"Email", "PhoneNumber", "Ssn", "CreditCard", "IpAddressV4", "IpAddressV6"}

(* ---------------------------------------------------------------------- *)
(* detector.rs                                                             *)
(* ---------------------------------------------------------------------- *)
Detection(t, s, e, o) == [pii_type |-> t, start |-> s, end |-> e, original |-> o]

\* impl Zeroize for Detection: String::zeroize overwrites every byte of the
\* buffer of `original` with zero.  The value is the Detection as it is left
\* in memory.
zeroize(d) == [d EXCEPT !.original = [i \in 1..Len(d.original) |-> "00"]]

\* impl Drop for Detection.  (drop_no_zeroize: a Drop that frees the value
\* and leaves the bytes of `original` as they are.)
drop_no_zeroize(d) == d
drop(d) == zeroize(d)

\* Dropping a Vec<Detection>, or the items an iterator discards: every
\* element is dropped.
drop_all(ds) == [i \in 1..Len(ds) |-> drop(ds[i])]

SpanLen(d) == d.end - d.start

\* The comparator of sort_by: start ascending, then span length descending.
\* TRUE when a is ordered strictly before b.
SortLess(a, b) ==
    \/ a.start < b.start
    \/ a.start = b.start /\ SpanLen(b) < SpanLen(a)

\* Vec::sort_by is a stable sort: an element goes after every element that
\* does not compare greater than it.
\* (InsertBeforeEqual: an unstable sort that puts x before the elements it
\* compares equal to.)
InsertBeforeEqual(x, sorted) ==
    LET before == {i \in 1..Len(sorted) : SortLess(sorted[i], x)}
        k == Cardinality(before)
    IN  SubSeq(sorted, 1, k) \o <<x>> \o SubSeq(sorted, k + 1, Len(sorted))
InsertSorted(x, sorted) ==
    LET before == {i \in 1..Len(sorted) : ~SortLess(x, sorted[i])}
        k == Cardinality(before)
    IN  SubSeq(sorted, 1, k) \o <<x>> \o SubSeq(sorted, k + 1, Len(sorted))

RECURSIVE SortFrom(_, _, _)
SortFrom(dets, i, acc) ==
    IF i > Len(dets) THEN acc
    ELSE SortFrom(dets, i + 1, InsertSorted(dets[i], acc))

\* (sort_by_skipped: the vector left in the order the detectors returned it.)
sort_by_skipped(dets) == dets
sort_by(dets) == SortFrom(dets, 1, <<>>)

\* The sweep of resolve_overlaps: i is the loop index (1-based), cur the
\* index current_idx, resolved the vector built so far.
\* (SweepKeepShorter: the sweep with the length comparison reversed.)
RECURSIVE SweepKeepShorter(_, _, _, _)
SweepKeepShorter(dets, i, cur, resolved) ==
    IF i > Len(dets) THEN Append(resolved, dets[cur])
    ELSE IF dets[i].start < dets[cur].end
         THEN IF SpanLen(dets[i]) < SpanLen(dets[cur])
              THEN SweepKeepShorter(dets, i + 1, i, resolved)
              ELSE SweepKeepShorter(dets, i + 1, cur, resolved)
         ELSE SweepKeepShorter(dets, i + 1, i, Append(resolved, dets[cur]))
RECURSIVE Sweep(_, _, _, _)
Sweep(dets, i, cur, resolved) ==
    IF i > Len(dets) THEN Append(resolved, dets[cur])
    ELSE IF dets[i].start < dets[cur].end
         THEN IF SpanLen(dets[i]) > SpanLen(dets[cur])
              THEN Sweep(dets, i + 1, i, resolved)
              ELSE Sweep(dets, i + 1, cur, resolved)
         ELSE Sweep(dets, i + 1, i, Append(resolved, dets[cur]))

resolve_overlaps(detections) ==
    IF detections = <<>> THEN detections
    ELSE Sweep(sort_by(detections), 2, 1, <<>>)

(* ---------------------------------------------------------------------- *)
(* detector.rs: PiiDetector and MultiDetector::detect                      *)
(* ---------------------------------------------------------------------- *)
\* A registered detector: its category and the answer of its validate.
\* The trait's default validate answers TRUE for every candidate.
Detector(t, a) == [pii_type |-> t, accepts |-> a]

validate(detector, candidate) == detector.accepts

\* MultiDetector::detect: results[k] is what the k-th registered detector
\* returned for the text; they are appended in registration order.
detect(results) == resolve_overlaps(Concat(results))

(* ---------------------------------------------------------------------- *)
(* policy.rs                                                               *)
(* ---------------------------------------------------------------------- *)
\* RedactionPolicy::default()
DefaultPolicy ==
    [enabled_types |-> PiiType,
     allowlist |-> <<>>,
     blocklist |-> <<>>,
     strict_validation |-> TRUE]

is_enabled(pol, t) == t \in pol.enabled_types

requires_validation(pol) == pol.strict_validation

\* The accessors the engine calls on its policy for the two term lists.
allowlist_terms(pol) == pol.allowlist

blocklist_terms(pol) == pol.blocklist

\* PolicyBuilder
enable(pol, t) == [pol EXCEPT !.enabled_types = @ \cup {t}]

disable(pol, t) == [pol EXCEPT !.enabled_types = @ \ {t}]

with_allowlist(pol, terms) == [pol EXCEPT !.allowlist = terms]

with_blocklist(pol, terms) == [pol EXCEPT !.blocklist = terms]

strict_validation(pol, b) == [pol EXCEPT !.strict_validation = b]

\* RedactionPolicy::gdpr()
gdpr ==
    disable(enable(enable(enable(enable(DefaultPolicy, "Email"),
        "PhoneNumber"), "IpAddressV4"), "IpAddressV6"), "Ssn")

(* ---------------------------------------------------------------------- *)
(* redactor.rs: structured substitution                                    *)
(* ---------------------------------------------------------------------- *)
\* str::split on a one-byte separator.
RECURSIVE SplitFrom(_, _, _, _)
SplitFrom(s, sep, i, part) ==
    IF i > Len(s) THEN <<part>>
    ELSE IF s[i] = sep
         THEN <<part>> \o SplitFrom(s, sep, i + 1, <<>>)
         ELSE SplitFrom(s, sep, i + 1, Append(part, s[i]))

split(s, sep) == SplitFrom(s, sep, 1, <<>>)

\* [&str]::join
RECURSIVE join(_, _)
join(parts, sep) ==
    IF parts = <<>> THEN <<>>
    ELSE IF Len(parts) = 1 THEN parts[1]
    ELSE parts[1] \o <<sep>> \o join(Tail(parts), sep)

\* (redact_email_first_label: the substitution with only the first domain
\* label counted for the block run, the join of the labels forgotten.)
redact_email_first_label(email) ==
    LET ats == {i \in 1..Len(email) : email[i] = "@"}
    IN  IF ats # {}
        THEN LET at_idx == CHOOSE i \in ats : \A j \in ats : i <= j
                 local == SubSeq(email, 1, at_idx - 1)
                 domain == SubSeq(email, at_idx + 1, Len(email))
                 KeepDot(c) == IF c = <<".">> THEN c ELSE Block
                 local_chars == chars(local)
                 local_redacted ==
                    Concat([i \in 1..Len(local_chars) |-> KeepDot(local_chars[i])])
                 parts == split(domain, ".")
             IN  IF Len(parts) >= 2
                 THEN local_redacted \o <<"@">> \o repeat(Block, Len(parts[1]))
                          \o <<".">> \o parts[Len(parts)]
                 ELSE local_redacted \o <<"@">> \o repeat(Block, Len(domain))
        ELSE repeat(Block, Len(email))
redact_email_structured(email) ==
    LET ats == {i \in 1..Len(email) : email[i] = "@"}
    IN  IF ats # {}
        THEN LET at_idx == CHOOSE i \in ats : \A j \in ats : i <= j
                 local == SubSeq(email, 1, at_idx - 1)
                 domain == SubSeq(email, at_idx + 1, Len(email))
                 KeepDot(c) == IF c = <<".">> THEN c ELSE Block
                 local_chars == chars(local)
                 local_redacted ==
                    Concat([i \in 1..Len(local_chars) |-> KeepDot(local_chars[i])])
                 parts == split(domain, ".")
             IN  IF Len(parts) >= 2
                 THEN LET tld == parts[Len(parts)]
                          main == join(SubSeq(parts, 1, Len(parts) - 1), ".")
                          main_redacted == repeat(Block, Len(main))
                      IN  local_redacted \o <<"@">> \o main_redacted
                              \o <<".">> \o tld
                 ELSE local_redacted \o <<"@">> \o repeat(Block, Len(domain))
        ELSE repeat(Block, Len(email))

\* chars().map(|c| if c.is_ascii_digit() { block } else { c }).collect()
BlockDigits(s) ==
    LET cs == chars(s)
    IN  Concat([i \in 1..Len(cs) |-> IF is_ascii_digit(cs[i]) THEN Block ELSE cs[i]])

redact_phone_structured(phone) == BlockDigits(phone)

redact_ssn_structured(ssn) == BlockDigits(ssn)

\* The loop of redact_credit_card_structured over cc.chars(): k is the
\* position in cs, digit_count the digits seen before it, ndigits digits.len().
\* (CreditCardKeepFive: the loop with >= for >, which keeps five digits.)
RECURSIVE CreditCardKeepFive(_, _, _, _)
CreditCardKeepFive(cs, k, digit_count, ndigits) ==
    IF k > Len(cs) THEN <<>>
    ELSE IF is_ascii_digit(cs[k])
         THEN (IF digit_count + 1 >= ndigits - 4 THEN cs[k] ELSE Block)
                  \o CreditCardKeepFive(cs, k + 1, digit_count + 1, ndigits)
         ELSE cs[k] \o CreditCardKeepFive(cs, k + 1, digit_count, ndigits)
RECURSIVE CreditCardFrom(_, _, _, _)
CreditCardFrom(cs, k, digit_count, ndigits) ==
    IF k > Len(cs) THEN <<>>
    ELSE IF is_ascii_digit(cs[k])
         THEN (IF digit_count + 1 > ndigits - 4 THEN cs[k] ELSE Block)
                  \o CreditCardFrom(cs, k + 1, digit_count + 1, ndigits)
         ELSE cs[k] \o CreditCardFrom(cs, k + 1, digit_count, ndigits)

redact_credit_card_structured(cc) ==
    LET digits == SelectSeq(chars(cc), is_ascii_digit)
    IN  IF Len(digits) < 4
        THEN repeat(Block, Len(cc))
        ELSE CreditCardFrom(chars(cc), 1, 0, Len(digits))

redact_structured(original, pii_type) ==
    CASE pii_type = "Email" -> redact_email_structured(original)
      [] pii_type = "PhoneNumber" -> redact_phone_structured(original)
      [] pii_type = "Ssn" -> redact_ssn_structured(original)
      [] pii_type = "CreditCard" -> redact_credit_card_structured(original)
      [] pii_type \in {"IpAddressV4", "IpAddressV6"} ->
            repeat(Block, Len(original))

(* ---------------------------------------------------------------------- *)
(* redactor.rs: Redactor::redact                                           *)
(* ---------------------------------------------------------------------- *)
\* Step 1 of redact, the loop over the blocklist terms from the k-th on.
\* (BlocklistFlagAlways: the loop setting blocklist_applied for every term,
\* found or not.)
RECURSIVE BlocklistFlagAlways(_, _, _, _)
BlocklistFlagAlways(terms, k, working_text, blocklist_applied) ==
    IF k > Len(terms)
    THEN [working_text |-> working_text, blocklist_applied |-> blocklist_applied]
    ELSE IF contains(working_text, terms[k])
         THEN BlocklistFlagAlways(terms, k + 1,
                  replace(working_text, terms[k], repeat(Block, Len(terms[k]))),
                  TRUE)
         ELSE BlocklistFlagAlways(terms, k + 1, working_text, TRUE)
RECURSIVE BlocklistFrom(_, _, _, _)
BlocklistFrom(terms, k, working_text, blocklist_applied) ==
    IF k > Len(terms)
    THEN [working_text |-> working_text, blocklist_applied |-> blocklist_applied]
    ELSE IF contains(working_text, terms[k])
         THEN BlocklistFrom(terms, k + 1,
                  replace(working_text, terms[k], repeat(Block, Len(terms[k]))),
                  TRUE)
         ELSE BlocklistFrom(terms, k + 1, working_text, blocklist_applied)

apply_blocklist(pol, text) == BlocklistFrom(blocklist_terms(pol), 1, text, FALSE)

find_allowlist_spans(pol, text) ==
    LET terms == allowlist_terms(pol)
        SpansOf(term) ==
            LET starts == match_indices(text, term)
            IN  [i \in 1..Len(starts) |-> <<starts[i], starts[i] + Len(term)>>]
    IN  Concat([k \in 1..Len(terms) |-> SpansOf(terms[k])])

\* The loop of apply_redactions from the k-th detection on.
\* (RedactionsResumeAtStart: the loop resuming the copy at the start of
\* the detection instead of its end.)
RECURSIVE RedactionsResumeAtStart(_, _, _, _)
RedactionsResumeAtStart(text, detections, k, last_idx) ==
    IF k > Len(detections)
    THEN (IF last_idx < Len(text) THEN Slice(text, last_idx, Len(text)) ELSE <<>>)
    ELSE LET detection == detections[k]
         IN  (IF detection.start > last_idx
              THEN Slice(text, last_idx, detection.start) ELSE <<>>)
             \o redact_structured(detection.original, detection.pii_type)
             \o RedactionsResumeAtStart(text, detections, k + 1, detection.start)
RECURSIVE RedactionsFrom(_, _, _, _)
RedactionsFrom(text, detections, k, last_idx) ==
    IF k > Len(detections)
    THEN (IF last_idx < Len(text) THEN Slice(text, last_idx, Len(text)) ELSE <<>>)
    ELSE LET detection == detections[k]
         IN  (IF detection.start > last_idx
              THEN Slice(text, last_idx, detection.start) ELSE <<>>)
             \o redact_structured(detection.original, detection.pii_type)
             \o RedactionsFrom(text, detections, k + 1, detection.end)

apply_redactions(text, detections) == RedactionsFrom(text, detections, 1, 0)

\* Step 4 of redact: the detections that intersect no allowlist span.
filter_allowlist(detections, allowlist_spans) ==
    LET Kept(d) ==
            ~\E i \in 1..Len(allowlist_spans) :
                d.start < allowlist_spans[i][2] /\ d.end > allowlist_spans[i][1]
    IN  SelectSeq(detections, Kept)

Borrowed(text) == [kind |-> "Borrowed", value |-> text]

Owned(text) == [kind |-> "Owned", value |-> text]

\* Redactor::redact.  results[k] is what the k-th registered detector returns
\* for the working text.  The value is the record of the call: its argument,
\* its locals and the Cow it returns.
redact(pol, text, results) ==
    IF text = <<>>
    THEN [text |-> text, working_text |-> <<>>, blocklist_applied |-> FALSE,
          allowlist_spans |-> <<>>, results |-> <<>>, detections |-> <<>>,
          filtered_detections |-> <<>>, result |-> Borrowed(text)]
    ELSE LET step1 == apply_blocklist(pol, text)
             working_text == step1.working_text
             blocklist_applied == step1.blocklist_applied
             allowlist_spans == find_allowlist_spans(pol, working_text)
             detections == detect(results)
             filtered_detections == filter_allowlist(detections, allowlist_spans)
         IN  [text |-> text, working_text |-> working_text,
              blocklist_applied |-> blocklist_applied,
              allowlist_spans |-> allowlist_spans, results |-> results,
              detections |-> detections,
              filtered_detections |-> filtered_detections,
              result |->
                IF filtered_detections = <<>> /\ ~blocklist_applied
                THEN Borrowed(text)
                ELSE IF filtered_detections = <<>>
                     THEN Owned(working_text)
                     ELSE Owned(apply_redactions(working_text,
                                                 filtered_detections))]

(* ---------------------------------------------------------------------- *)
(* State                                                                   *)
(* ---------------------------------------------------------------------- *)
VARIABLES
    phase,          \* which operation has run
    policy,         \* the RedactionPolicy held by the builder, then the Redactor
    detectors,      \* MultiDetector.detectors of the Redactor, registration order
    call,           \* the record of the redact call (see redact)
    ro_input,       \* the vector passed to resolve_overlaps
    ro_output,      \* the vector it returned
    md_results,     \* what each detector returned to MultiDetector::detect
    md_output,      \* the vector MultiDetector::detect returned
    sub_input,      \* the match and category passed to redact_structured
    sub_output,     \* the string it returned
    threads         \* the locals of each concurrent redact call (see ThreadIdle)

vars ==
    <<phase, policy, detectors, call, ro_input, ro_output, md_results, md_output,
      sub_input, sub_output, threads>>

\* The variables of the pure-function specifications.
pureVars == <<ro_input, ro_output, md_results, md_output, sub_input, sub_output>>

NoCall == redact(DefaultPolicy, <<>>, <<>>)

NoSub == [pii_type |-> "Email", original |-> <<>>]

\* All sequences over S of length at most n.
SeqsUpTo(S, n) == UNION {[1..k -> S] : k \in 0..n}

(* ---------------------------------------------------------------------- *)
(* Specification of the engine: build a policy, construct the Redactor,    *)
(* redact one text.  The Redactor is immutable, so one call per behaviour  *)
(* shows every call.                                                       *)
(* ---------------------------------------------------------------------- *)
TextAlphabet == {"a", "1"}

Texts == SeqsUpTo(TextAlphabet, MaxTextLen)

\* The terms given to with_allowlist and with_blocklist.
Terms == {<<"a", "a">>, <<"a", "1">>}

TermLists == SeqsUpTo(Terms, MaxTerms)

\* The categories of the registered detectors and of enable and disable.
DetectorTypes == {"Ssn", "IpAddressV4"}

DetectorLists ==
    {ds \in SeqsUpTo({Detector(t, a) : t \in DetectorTypes, a \in BOOLEAN},
                     MaxDetectors) :
        \A i, j \in 1..Len(ds) : i # j => ds[i].pii_type # ds[j].pii_type}

\* What a detector of category t may return for text under its contract:
\* at most MaxPerDetector detections on character boundaries, sorted by
\* start, not overlapping, each carrying the substring it matched.
DetectorOutputs(text, t) ==
    LET spans == {sp \in (0..Len(text)) \X (0..Len(text)) :
                    /\ sp[1] < sp[2]
                    /\ is_char_boundary(text, sp[1])
                    /\ is_char_boundary(text, sp[2])}
        found == {Detection(t, sp[1], sp[2], Slice(text, sp[1], sp[2])) :
                    sp \in spans}
    IN  {ds \in SeqsUpTo(found, MaxPerDetector) :
            \A k \in 1..(Len(ds) - 1) : ds[k].end <= ds[k + 1].start}

\* One result per registered detector.
DetectorResults(ds, text) ==
    {rs \in [1..Len(ds) -> UNION {DetectorOutputs(text, t) : t \in DetectorTypes}] :
        \A k \in 1..Len(ds) : rs[k] \in DetectorOutputs(text, ds[k].pii_type)}

Init ==
    /\ phase = "building"
    /\ policy = DefaultPolicy
    /\ detectors = <<>>
    /\ call = NoCall
    /\ threads = <<>>
    /\ ro_input = <<>>
    /\ ro_output = <<>>
    /\ md_results = <<>>
    /\ md_output = <<>>
    /\ sub_input = NoSub
    /\ sub_output = <<>>

Enable ==
    /\ phase = "building"
    /\ \E t \in DetectorTypes : policy' = enable(policy, t)
    /\ UNCHANGED <<phase, detectors, call, threads, pureVars>>

Disable ==
    /\ phase = "building"
    /\ \E t \in DetectorTypes : policy' = disable(policy, t)
    /\ UNCHANGED <<phase, detectors, call, threads, pureVars>>

WithAllowlist ==
    /\ phase = "building"
    /\ \E terms \in TermLists : policy' = with_allowlist(policy, terms)
    /\ UNCHANGED <<phase, detectors, call, threads, pureVars>>

WithBlocklist ==
    /\ phase = "building"
    /\ \E terms \in TermLists : policy' = with_blocklist(policy, terms)
    /\ UNCHANGED <<phase, detectors, call, threads, pureVars>>

StrictValidation ==
    /\ phase = "building"
    /\ \E b \in BOOLEAN : policy' = strict_validation(policy, b)
    /\ UNCHANGED <<phase, detectors, call, threads, pureVars>>

\* Redactor::new(detectors, builder.build())
New ==
    /\ phase = "building"
    /\ phase' = "ready"
    /\ \E ds \in DetectorLists : detectors' = ds
    /\ UNCHANGED <<policy, call, threads, pureVars>>

Redact ==
    /\ phase = "ready"
    /\ phase' = "redacted"
    /\ \E text \in Texts :
        \E results \in DetectorResults(detectors,
                            apply_blocklist(policy, text).working_text) :
            call' = redact(policy, text, results)
    /\ UNCHANGED <<policy, detectors, threads, pureVars>>

Next ==
    \/ Enable
    \/ Disable
    \/ WithAllowlist
    \/ WithBlocklist
    \/ StrictValidation
    \/ New
    \/ Redact

Spec == Init /\ [][Next]_vars

(* ---------------------------------------------------------------------- *)
(* Specification of resolve_overlaps on arbitrary detection vectors        *)
(* ---------------------------------------------------------------------- *)
ResolveDetections ==
    {d \in [pii_type : {"Ssn"}, start : 0..MaxOffset, end : 0..MaxOffset,
            original : {<<>>}] : d.start < d.end}

ResolveInputs == SeqsUpTo(ResolveDetections, MaxDetections)

InitResolve ==
    /\ phase = "input"
    /\ ro_input \in ResolveInputs
    /\ ro_output = <<>>
    /\ policy = DefaultPolicy
    /\ detectors = <<>>
    /\ call = NoCall
    /\ threads = <<>>
    /\ md_results = <<>>
    /\ md_output = <<>>
    /\ sub_input = NoSub
    /\ sub_output = <<>>

ResolveOverlaps ==
    /\ phase = "input"
    /\ phase' = "resolved"
    /\ ro_output' = resolve_overlaps(ro_input)
    /\ UNCHANGED <<policy, detectors, call, threads, ro_input, md_results, md_output,
                   sub_input, sub_output>>

NextResolve == ResolveOverlaps

SpecResolve == InitResolve /\ [][NextResolve]_vars

(* ---------------------------------------------------------------------- *)
(* Specification of MultiDetector::detect: three registered detectors,     *)
(* each returning any vector its contract allows                           *)
(* ---------------------------------------------------------------------- *)
\* The detectors vector given to MultiDetector::new, in registration order.
Registered ==
    <<Detector("PhoneNumber", TRUE), Detector("Ssn", TRUE),
      Detector("CreditCard", TRUE)>>

\* What a detector of category t may return under its contract when only
\* the spans matter: sorted by start, not overlapping.
ContractOutputs(t) ==
    LET found == {d \in [pii_type : {t}, start : 0..MaxDetectOffset,
                         end : 0..MaxDetectOffset, original : {<<>>}] :
                    d.start < d.end}
    IN  {ds \in SeqsUpTo(found, MaxPerDetector) :
            \A k \in 1..(Len(ds) - 1) : ds[k].end <= ds[k + 1].start}

InitDetect ==
    /\ phase = "registered"
    /\ detectors = Registered
    /\ md_results \in {<<r1, r2, r3>> :
            r1 \in ContractOutputs(Registered[1].pii_type),
            r2 \in ContractOutputs(Registered[2].pii_type),
            r3 \in ContractOutputs(Registered[3].pii_type)}
    /\ md_output = <<>>
    /\ policy = DefaultPolicy
    /\ call = NoCall
    /\ threads = <<>>
    /\ ro_input = <<>>
    /\ ro_output = <<>>
    /\ sub_input = NoSub
    /\ sub_output = <<>>

Detect ==
    /\ phase = "registered"
    /\ phase' = "detected"
    /\ md_output' = detect(md_results)
    /\ UNCHANGED <<policy, detectors, call, threads, ro_input, ro_output, md_results,
                   sub_input, sub_output>>

NextDetect == Detect

SpecDetect == InitDetect /\ [][NextDetect]_vars

(* ---------------------------------------------------------------------- *)
(* Specification of redact_structured on arbitrary matches                 *)
(* ---------------------------------------------------------------------- *)
SubAlphabet == {<<"1">>, <<"2">>, <<" ">>, Block}

EmailAlphabet == {<<"a">>, <<".">>, <<"@">>, Block}

SubInputs ==
    {[pii_type |-> "CreditCard", original |-> Concat(cs)] :
        cs \in SeqsUpTo(SubAlphabet, MaxSubLen)}
    \cup
    {[pii_type |-> "Email", original |-> Concat(cs)] :
        cs \in SeqsUpTo(EmailAlphabet, MaxSubLen)}

InitStructured ==
    /\ phase = "match"
    /\ sub_input \in SubInputs
    /\ sub_output = <<>>
    /\ policy = DefaultPolicy
    /\ detectors = <<>>
    /\ call = NoCall
    /\ threads = <<>>
    /\ ro_input = <<>>
    /\ ro_output = <<>>
    /\ md_results = <<>>
    /\ md_output = <<>>

RedactStructured ==
    /\ phase = "match"
    /\ phase' = "substituted"
    /\ sub_output' = redact_structured(sub_input.original, sub_input.pii_type)
    /\ UNCHANGED <<policy, detectors, call, threads, ro_input, ro_output, md_results,
                   md_output, sub_input>>

NextStructured == RedactStructured

SpecStructured == InitStructured /\ [][NextStructured]_vars

(* ---------------------------------------------------------------------- *)
(* Specification of concurrent calls: one Redactor shared by MaxThreads    *)
(* threads, each making one redact call; a step of a thread is one of the  *)
(* numbered steps of Redactor::redact.  The Redactor is reached through    *)
(* &self; the locals of a call are the thread's own.                       *)
(* ---------------------------------------------------------------------- *)
Threads == 1..MaxThreads

\* The texts the concurrent calls are made on.
CallTexts == {<<>>, <<"a">>, <<"1">>, <<"a", "a">>, <<"a", "1">>}

\* A stateless detector for one literal pattern, as the detectors of the
\* repository are: it reports the first occurrence of its pattern.
PatternDetector(t, p) == [pii_type |-> t, pattern |-> p]

pattern_detect(detector, text) ==
    LET found == match_indices(text, detector.pattern)
    IN  IF found # <<>>
        THEN << Detection(detector.pii_type, found[1],
                          found[1] + Len(detector.pattern), detector.pattern) >>
        ELSE <<>>

\* What the registered detectors return for text, in registration order.
PatternResults(ds, text) == [k \in 1..Len(ds) |-> pattern_detect(ds[k], text)]

SharedDetectors ==
    << PatternDetector("CreditCard", <<"a", "a">>), PatternDetector("Ssn", <<"a">>) >>

SharedPolicies ==
    {with_blocklist(with_allowlist(DefaultPolicy, al), bl) :
        al \in {<<>>, << <<"a">> >>, << <<"a", "1">> >>},
        bl \in {<<>>, << <<"1">> >>}}

\* The locals of a redact call that has not started; `dropped` is the
\* memory left behind by the Detection values the call has dropped.
ThreadIdle ==
    [pc |-> "idle", text |-> <<>>, working_text |-> <<>>,
     blocklist_applied |-> FALSE, allowlist_spans |-> <<>>,
     detections |-> <<>>, filtered_detections |-> <<>>,
     result |-> Borrowed(<<>>), dropped |-> <<>>]

\* The working text a call reads: its own local.  (working_text_shared: one
\* buffer used by every call, that of the first thread.)
working_text_shared(ts, t) == ts[1].working_text
working_text_of(ts, t) == ts[t].working_text

\* The detections the allowlist filter discards.
rejected_by_allowlist(detections, allowlist_spans) ==
    LET kept == filter_allowlist(detections, allowlist_spans)
        Rejected(d) == \A i \in 1..Len(kept) : kept[i] # d
    IN  SelectSeq(detections, Rejected)

InitConcurrent ==
    /\ phase = "shared"
    /\ policy \in SharedPolicies
    /\ detectors = SharedDetectors
    /\ threads = [t \in Threads |-> ThreadIdle]
    /\ call = NoCall
    /\ ro_input = <<>>
    /\ ro_output = <<>>
    /\ md_results = <<>>
    /\ md_output = <<>>
    /\ sub_input = NoSub
    /\ sub_output = <<>>

\* Entry of redact: the empty-text return, or the copy of the text.
CallRedact(t) ==
    /\ threads[t].pc = "idle"
    /\ \E text \in CallTexts :
        threads' =
            [threads EXCEPT ![t] =
                IF text = <<>>
                THEN [@ EXCEPT !.pc = "returned", !.text = text,
                               !.result = Borrowed(text)]
                ELSE [@ EXCEPT !.pc = "blocklist", !.text = text,
                               !.working_text = text]]
    /\ UNCHANGED <<phase, policy, detectors, call, pureVars>>

Step1Blocklist(t) ==
    /\ threads[t].pc = "blocklist"
    /\ LET step1 == apply_blocklist(policy, threads[t].working_text)
       IN  threads' =
            [threads EXCEPT ![t] =
                [@ EXCEPT !.pc = "allowlist",
                          !.working_text = step1.working_text,
                          !.blocklist_applied = step1.blocklist_applied]]
    /\ UNCHANGED <<phase, policy, detectors, call, pureVars>>

Step2AllowlistSpans(t) ==
    /\ threads[t].pc = "allowlist"
    /\ threads' =
        [threads EXCEPT ![t] =
            [@ EXCEPT !.pc = "detect",
                      !.allowlist_spans =
                          find_allowlist_spans(policy,
                                               working_text_of(threads, t))]]
    /\ UNCHANGED <<phase, policy, detectors, call, pureVars>>

\* MultiDetector::detect: the detectors' values are gathered in one vector,
\* resolve_overlaps returns clones and drops the vector it was given.
Step3Detect(t) ==
    /\ threads[t].pc = "detect"
    /\ LET results == PatternResults(detectors, working_text_of(threads, t))
       IN  threads' =
            [threads EXCEPT ![t] =
                [@ EXCEPT !.pc = "filter",
                          !.detections = detect(results),
                          !.dropped = @ \o drop_all(Concat(results))]]
    /\ UNCHANGED <<phase, policy, detectors, call, pureVars>>

\* into_iter().filter().collect(): the kept values move to
\* filtered_detections, the others are dropped by the iterator.
Step4Filter(t) ==
    /\ threads[t].pc = "filter"
    /\ LET me == threads[t]
       IN  threads' =
            [threads EXCEPT ![t] =
                [@ EXCEPT !.pc = "return",
                          !.detections = <<>>,
                          !.filtered_detections =
                              filter_allowlist(me.detections, me.allowlist_spans),
                          !.dropped =
                              @ \o drop_all(rejected_by_allowlist(
                                        me.detections, me.allowlist_spans))]]
    /\ UNCHANGED <<phase, policy, detectors, call, pureVars>>

\* Steps 5 and 6: one of the three returns; filtered_detections goes out
\* of scope at each of them.
Step5Return(t) ==
    /\ threads[t].pc = "return"
    /\ LET me == threads[t]
           working_text == working_text_of(threads, t)
       IN  threads' =
            [threads EXCEPT ![t] =
                [@ EXCEPT !.pc = "returned",
                          !.result =
                              IF me.filtered_detections = <<>>
                                 /\ ~me.blocklist_applied
                              THEN Borrowed(me.text)
                              ELSE IF me.filtered_detections = <<>>
                                   THEN Owned(working_text)
                                   ELSE Owned(apply_redactions(working_text,
                                                  me.filtered_detections)),
                          !.filtered_detections = <<>>,
                          !.dropped = @ \o drop_all(me.filtered_detections)]]
    /\ UNCHANGED <<phase, policy, detectors, call, pureVars>>

NextConcurrent ==
    \E t \in Threads :
        \/ CallRedact(t)
        \/ Step1Blocklist(t)
        \/ Step2AllowlistSpans(t)
        \/ Step3Detect(t)
        \/ Step4Filter(t)
        \/ Step5Return(t)

SpecConcurrent == InitConcurrent /\ [][NextConcurrent]_vars

(* ---------------------------------------------------------------------- *)
(* Claims about resolve_overlaps (checked under SpecResolve)               *)
(* ---------------------------------------------------------------------- *)
Overlaps(a, b) == a.start < b.end /\ b.start < a.end

InResolved(d) == \E k \in 1..Len(ro_output) : ro_output[k] = d

\* C1: the vector returned by resolve_overlaps is sorted ascending by start
\* and consecutive elements a, b satisfy a.end <= b.start.
C1_SortedDisjoint ==
    phase = "resolved" =>
        \A k \in 1..(Len(ro_output) - 1) :
            /\ ro_output[k].start <= ro_output[k + 1].start
            /\ ro_output[k].end <= ro_output[k + 1].start

\* C1 witness: an unsorted input with an overlapping pair was resolved to
\* at least two detections.
C1_Witness ==
    /\ phase = "resolved"
    /\ Len(ro_output) >= 2
    /\ \E i, j \in 1..Len(ro_input) :
            i < j /\ ro_input[j].start < ro_input[i].start
    /\ \E i, j \in 1..Len(ro_input) :
            i # j /\ Overlaps(ro_input[i], ro_input[j])

\* C2 as stated: for every overlapping input pair of different span lengths
\* the longer one is in the resolved output.
C2_LongerOfEveryPair ==
    phase = "resolved" =>
        \A i, j \in 1..Len(ro_input) :
            (Overlaps(ro_input[i], ro_input[j])
                /\ SpanLen(ro_input[i]) > SpanLen(ro_input[j]))
            => InResolved(ro_input[i])

\* TRUE when the detection at index i overlaps no other input detection
\* whose span is at least as long as its own.
Undominated(i) ==
    \A k \in 1..Len(ro_input) :
        (k # i /\ Overlaps(ro_input[i], ro_input[k]))
        => SpanLen(ro_input[k]) < SpanLen(ro_input[i])

\* C2 amended: for every overlapping input pair of different span lengths
\* the longer one is in the resolved output, provided the longer one
\* overlaps no other input detection of equal or greater length.
C2_LongerUndominated ==
    phase = "resolved" =>
        \A i, j \in 1..Len(ro_input) :
            (Overlaps(ro_input[i], ro_input[j])
                /\ SpanLen(ro_input[i]) > SpanLen(ro_input[j])
                /\ Undominated(i))
            => InResolved(ro_input[i])

\* C2 witness: a later-starting, longer detection displaced an earlier one
\* in a vector of three overlapping detections.
C2_Witness ==
    /\ phase = "resolved"
    /\ Len(ro_input) = 3
    /\ \E i, j \in 1..Len(ro_input) :
            /\ Overlaps(ro_input[i], ro_input[j])
            /\ SpanLen(ro_input[i]) > SpanLen(ro_input[j])
            /\ ro_input[i].start > ro_input[j].start
            /\ Undominated(i)
            /\ InResolved(ro_input[i])
            /\ ~InResolved(ro_input[j])

\* C4 as stated: every input detection absent from the output overlaps a
\* detection that is in the output.
C4_Cover ==
    phase = "resolved" =>
        \A i \in 1..Len(ro_input) :
            ~InResolved(ro_input[i])
            => \E k \in 1..Len(ro_output) : Overlaps(ro_input[i], ro_output[k])

(* ---------------------------------------------------------------------- *)
(* Claims about MultiDetector::detect (checked under SpecDetect)           *)
(* ---------------------------------------------------------------------- *)
\* What the detectors returned, each detection with the registration index
\* of its detector.
Reported ==
    UNION {{[det |-> k, d |-> md_results[k][n]] : n \in 1..Len(md_results[k])} :
            k \in 1..Len(md_results)}

Retained(d) == \E k \in 1..Len(md_output) : md_output[k] = d

\* C3 as stated: of two overlapping equal-length detections of different
\* detectors, the earlier-registered detector's is retained by detect and
\* the later-registered detector's is dropped, whatever their starts.
C3_EarlierRegisteredWins ==
    phase = "detected" =>
        \A a, b \in Reported :
            (a.det < b.det /\ Overlaps(a.d, b.d) /\ SpanLen(a.d) = SpanLen(b.d))
            => Retained(a.d) /\ ~Retained(b.d)

\* TRUE when a.d overlaps no reported detection, other than itself and b.d,
\* that is at least as long as a.d.
NoThirdRival(a, b) ==
    \A c \in Reported :
        (c # a /\ c # b /\ Overlaps(c.d, a.d)) => SpanLen(c.d) < SpanLen(a.d)

\* C3 amended: of two detections of different detectors that cover the same
\* span (equal start, equal length), the later-registered detector's is
\* dropped by detect, and the earlier-registered detector's is retained when
\* it overlaps no third detection of equal or greater length.
C3_SameSpanEarlierWins ==
    phase = "detected" =>
        \A a, b \in Reported :
            (a.det < b.det /\ a.d.start = b.d.start /\ a.d.end = b.d.end)
            => /\ ~Retained(b.d)
               /\ NoThirdRival(a, b) => Retained(a.d)

\* C3 witness: two detectors reported the same span, a third detector a
\* shorter overlapping one, and detect kept the earlier-registered
\* detector's detection of the two.
C3_Witness ==
    /\ phase = "detected"
    /\ \E a, b, c \in Reported :
            /\ a.det < b.det /\ a.d.start = b.d.start /\ a.d.end = b.d.end
            /\ c.det \notin {a.det, b.det} /\ Overlaps(c.d, a.d)
            /\ NoThirdRival(a, b)
            /\ Retained(a.d)
            /\ ~Retained(b.d)

(* ---------------------------------------------------------------------- *)
(* Claims about Redactor::redact and MultiDetector::detect (under Spec)    *)
(* ---------------------------------------------------------------------- *)
Redacted == phase = "redacted" /\ call.text # <<>>

InSeq(d, ds) == \E k \in 1..Len(ds) : ds[k] = d

\* The characters of the text redact returned.
OutputChars == chars(call.result.value)

\* C5 as stated: for every blocklist term and every occurrence of it in the
\* input text, overlapping occurrences included, the output has a block
\* character at every position of the occurrence.  (The texts of Texts are
\* ASCII, so the byte offset of an occurrence is its character position.)
C5_EveryOccurrenceBlocked ==
    Redacted =>
        \A k \in 1..Len(policy.blocklist) :
            \A i \in 0..Len(call.text) :
                MatchAt(call.text, policy.blocklist[k], i)
                => \A p \in (i + 1)..(i + Len(policy.blocklist[k])) :
                        p <= Len(OutputChars) /\ OutputChars[p] = Block

\* TRUE when d intersects some occurrence, at any offset, of some allowlist
\* term in the working text.
IntersectsAllowlisted(d) ==
    \E k \in 1..Len(policy.allowlist) :
        \E i \in 0..Len(call.working_text) :
            /\ MatchAt(call.working_text, policy.allowlist[k], i)
            /\ d.start < i + Len(policy.allowlist[k])
            /\ d.end > i

\* C6 as stated: a detection is dropped by the allowlist filter exactly when
\* it intersects some occurrence of some allowlist term in the working
\* text, every substring occurrence counting.
C6_DroppedIffIntersects ==
    Redacted =>
        \A n \in 1..Len(call.detections) :
            ~InSeq(call.detections[n], call.filtered_detections)
            <=> IntersectsAllowlisted(call.detections[n])

\* C7 as stated: a detection whose category is not enabled in the policy is
\* not among the detections redact rewrites.
C7_OnlyEnabledRewritten ==
    Redacted =>
        \A n \in 1..Len(call.filtered_detections) :
            is_enabled(policy, call.filtered_detections[n].pii_type)

\* C8 as stated: when the policy requires validation, a detection whose
\* detector's validate rejects it is not among the detections redact
\* rewrites.
C8_RejectedNotRewritten ==
    Redacted =>
        \A n \in 1..Len(call.filtered_detections) :
            \A k \in 1..Len(detectors) :
                (requires_validation(policy)
                    /\ detectors[k].pii_type = call.filtered_detections[n].pii_type)
                => validate(detectors[k], call.filtered_detections[n].original)

\* TRUE when some blocklist term occurs in the input text.
BlocklistTermOccurs ==
    \E k \in 1..Len(policy.blocklist) : contains(call.text, policy.blocklist[k])

\* C9: redact returns the input borrowed, content unchanged, when the input
\* is empty and when no blocklist term occurs in it and no detection
\* survives; it returns an owned text only when a blocklist term was
\* substituted or a detection survived.
C9_ZeroCopy ==
    phase = "redacted" =>
        /\ call.text = <<>> => call.result.kind = "Borrowed"
        /\ (~BlocklistTermOccurs /\ call.filtered_detections = <<>>)
                => call.result.kind = "Borrowed"
        /\ call.result.kind = "Borrowed" => call.result.value = call.text
        /\ call.result.kind = "Owned"
                => (BlocklistTermOccurs \/ call.filtered_detections # <<>>)

\* C9 witness: a non-empty text was returned borrowed although the policy
\* has a blocklist and an allowlist exempted the only detection.
C9_Witness ==
    /\ Redacted
    /\ policy.blocklist # <<>>
    /\ call.detections # <<>>
    /\ call.filtered_detections = <<>>
    /\ call.result.kind = "Borrowed"

(* ---------------------------------------------------------------------- *)
(* Claims about redact_structured (checked under SpecStructured)           *)
(* ---------------------------------------------------------------------- *)
SubChars == chars(sub_input.original)

SubOut == chars(sub_output)

\* The number of ASCII digits of the match after character position k.
DigitsAfter(k) ==
    Cardinality({m \in (k + 1)..Len(SubChars) : is_ascii_digit(SubChars[m])})

\* C10: a credit-card match with at least four ASCII digits keeps its last
\* four digits in place, has one block character for every earlier digit
\* and keeps every other character at its position; a match with fewer
\* than four digits becomes block characters only.
C10_CreditCardLastFour ==
    (phase = "substituted" /\ sub_input.pii_type = "CreditCard") =>
        IF DigitsAfter(0) >= 4
        THEN /\ Len(SubOut) = Len(SubChars)
             /\ \A k \in 1..Len(SubChars) :
                    SubOut[k] =
                        IF is_ascii_digit(SubChars[k]) /\ DigitsAfter(k) >= 4
                        THEN Block ELSE SubChars[k]
        ELSE \A k \in 1..Len(SubOut) : SubOut[k] = Block

\* C10 witness: a match with more than four digits and a separator among
\* them was substituted.
C10_Witness ==
    /\ phase = "substituted"
    /\ sub_input.pii_type = "CreditCard"
    /\ DigitsAfter(0) > 4
    /\ \E k \in 2..Len(SubChars) :
            ~is_ascii_digit(SubChars[k]) /\ is_ascii_digit(SubChars[k - 1])
    /\ sub_output # <<>>

\* The byte index of the first '@' of the match (0 when there is none).
EmailAt ==
    LET ats == {i \in 1..Len(sub_input.original) : sub_input.original[i] = "@"}
    IN  IF ats = {} THEN 0 ELSE CHOOSE i \in ats : \A j \in ats : i <= j

\* The characters before the first '@' and the bytes after it.
EmailLocal == chars(SubSeq(sub_input.original, 1, EmailAt - 1))

EmailDomain == SubSeq(sub_input.original, EmailAt + 1, Len(sub_input.original))

\* The byte index in the domain of its last dot (0 when there is none).
EmailLastDot ==
    LET dots == {i \in 1..Len(EmailDomain) : EmailDomain[i] = "."}
    IN  IF dots = {} THEN 0 ELSE CHOOSE i \in dots : \A j \in dots : j <= i

BlockRun(n) == [i \in 1..n |-> Block]

\* C11: in an email match every character before the first '@' becomes one
\* block character except a dot, which is kept; then comes the '@'; when
\* the domain has a dot, everything before its last dot becomes one block
\* run of as many blocks as that part is long (its labels and their inner
\* dots, the length taken as str::len takes it) followed by the dot and the
\* last label verbatim; a domain without a dot becomes a block run of the
\* domain's length.
C11_EmailStructure ==
    (phase = "substituted" /\ sub_input.pii_type = "Email" /\ EmailAt > 0) =>
        LET nl == Len(EmailLocal)
        IN  /\ Len(SubOut) >= nl + 1
            /\ \A k \in 1..nl :
                    SubOut[k] = IF EmailLocal[k] = <<".">> THEN <<".">> ELSE Block
            /\ SubOut[nl + 1] = <<"@">>
            /\ SubSeq(SubOut, nl + 2, Len(SubOut)) =
                    IF EmailLastDot > 0
                    THEN BlockRun(EmailLastDot - 1) \o << <<".">> >>
                            \o chars(SubSeq(EmailDomain, EmailLastDot + 1,
                                            Len(EmailDomain)))
                    ELSE BlockRun(Len(EmailDomain))

\* C11 witness: a match whose local part has a dot and another character
\* and whose domain has two dots and a non-empty last label was substituted.
C11_Witness ==
    /\ phase = "substituted"
    /\ sub_input.pii_type = "Email"
    /\ EmailAt > 0
    /\ \E k \in 1..Len(EmailLocal) : EmailLocal[k] = <<".">>
    /\ \E k \in 1..Len(EmailLocal) : EmailLocal[k] = <<"a">>
    /\ Cardinality({i \in 1..Len(EmailDomain) : EmailDomain[i] = "."}) >= 2
    /\ EmailDomain[Len(EmailDomain)] # "."

\* The record of the call of thread t made alone on the same Redactor.
Alone(t) ==
    redact(policy, threads[t].text,
           PatternResults(detectors,
                          apply_blocklist(policy, threads[t].text).working_text))

Wiped(d) == \A i \in 1..Len(d.original) : d.original[i] = "00"

\* C12: when a redact call has returned, on whichever of its returns, no
\* Detection value is still held by it and every Detection value created
\* during the call (those the detectors returned and the clones made by
\* overlap resolution) lies dropped with every byte of its original
\* substring overwritten.
C12_AllWipedOnReturn ==
    \A t \in Threads :
        threads[t].pc = "returned" =>
            /\ threads[t].detections = <<>>
            /\ threads[t].filtered_detections = <<>>
            /\ Len(threads[t].dropped) =
                  Len(Concat(Alone(t).results)) + Len(Alone(t).detections)
            /\ \A i \in 1..Len(threads[t].dropped) : Wiped(threads[t].dropped[i])

\* C12 witness: one call returned its text borrowed after the allowlist
\* filter discarded a detection, another returned a rebuilt text after
\* overlap resolution discarded one and substitution consumed its clone.
C12_Witness ==
    /\ threads[1].pc = "returned"
    /\ threads[1].result.kind = "Borrowed"
    /\ Len(threads[1].dropped) >= 2
    /\ threads[2].pc = "returned"
    /\ threads[2].result.kind = "Owned"
    /\ Len(Alone(2).filtered_detections) >= 1
    /\ Len(threads[2].dropped) >= 3
    /\ \A i \in 1..Len(threads[2].dropped) : threads[2].dropped[i].original # <<>>

\* C13: no step of a redact call changes the Redactor's policy or detector
\* set, and under every interleaving of the steps of concurrent calls each
\* call returns what it returns when it is the only call.
C13_NoInterference ==
    /\ [](\A t \in Threads :
            threads[t].pc = "returned" => threads[t].result = Alone(t).result)
    /\ [][policy' = policy /\ detectors' = detectors]_vars

\* C13 witness: a call has returned a rewritten text while another call,
\* on a different text, is between its detection and its filter step.
C13_Witness ==
    /\ threads[1].pc = "filter"
    /\ threads[1].detections # <<>>
    /\ threads[2].pc = "returned"
    /\ threads[2].result.kind = "Owned"
    /\ threads[2].result.value # threads[2].text
    /\ threads[1].text # threads[2].text

\* The working text of the call with every surviving span replaced by the
\* structured substitution of the text it covers, and the text before,
\* between and after the spans in place.
RebuiltText ==
    LET w == call.working_text
        f == call.filtered_detections
        n == Len(f)
        Gap(k) == Slice(w, IF k = 0 THEN 0 ELSE f[k].end,
                           IF k = n THEN Len(w) ELSE f[k + 1].start)
        Sub(k) == redact_structured(Slice(w, f[k].start, f[k].end), f[k].pii_type)
    IN  Gap(0) \o Concat([k \in 1..n |-> Sub(k) \o Gap(k)])

\* C14: when at least one detection survives the filter, the surviving
\* spans are in ascending order and the text redact returns is the
\* post-blocklist working text with each surviving span replaced by its
\* structured substitution and everything outside the spans copied
\* unchanged and in order.
C14_FrameOfRebuild ==
    (Redacted /\ call.filtered_detections # <<>>) =>
        /\ \A k \in 1..(Len(call.filtered_detections) - 1) :
              call.filtered_detections[k].end
                  <= call.filtered_detections[k + 1].start
        /\ call.result = Owned(RebuiltText)

\* C14 witness: a call with two surviving detections and text between
\* them returned a rebuilt text.
C14_Witness ==
    /\ Redacted
    /\ Len(call.filtered_detections) = 2
    /\ call.filtered_detections[1].end < call.filtered_detections[2].start
    /\ call.result.kind = "Owned"

====
